---- MODULE Spec2Model ----
(***************************************************************************)
(* A model of the tsdb time-series engine: the data table of a series, its *)
(* chain of sparse indexes (each index is itself a Timeseries), the Table  *)
(* append buffer, the append pipeline and the timestamp lookups.           *)
(*                                                                         *)
(* A record is a pair <<timestamp, record_id>>.  Records of the data table *)
(* of the top series carry record_id 0 (their payload is not modelled);    *)
(* records of an index table are the index_record_t of the source.         *)
(* Record ids are 0-based as in the source; TLA+ sequences are 1-based, so *)
(* record i of table tbl is tbl[i+1].                                      *)
(***************************************************************************)
EXTENDS Integers, Sequences, FiniteSets, TLC

\* ---------------------------------------------------------------------
\* Program constants (scaled down; tsdb.h lets the build override them)
\* ---------------------------------------------------------------------
SPLIT_INDEX_GT == 3
INDEX_STEP == 3
APPEND_BUFFER_SIZE == 3
\* LLONG_MIN, scaled to 32-bit integers: below every timestamp
LLONG_MIN == -2147483647
\* hsize_t arithmetic is modular; the modulus is scaled from 2^64
HSIZE_MOD == 1073741824
\* milliseconds in a day, and the largest number of days whose product
\* with it fits a signed 32-bit integer
MsPerDay == 86400 * 1000
DaysInt32 == 24
\* the window of a BufferedRecordSet, in records (65000 in its constructors)
my_BUFFER_SIZE == 2

\* ---------------------------------------------------------------------
\* Bounds of the model
\* ---------------------------------------------------------------------
MaxTs == 2
MaxBatch == 3
MaxRecords == 6
MaxOrdered == 5
MaxFail == 2
MaxAscending == 9
MaxBulk == 8
MaxBulkTs == 3
MaxBulkRecords == 12
MaxFields == 3
MaxAssigned == 129
MaxSetRecords == 4
MaxRecordSize == 3

Timestamps == 1..MaxTs
\* fuel of a call in which no storage write fails (more than the writes
\* one call can make)
NoFail == 10 * (MaxRecords + 1)
\* e.ub when the read through the NULL pointer ends the process
UBCrash == 0 - 1
\* the stray record ids that read can yield otherwise
StrayIds == {0, 1}

\* ---------------------------------------------------------------------
\* Records and tables
\* ---------------------------------------------------------------------
Ts(r) == r[1]
Rid(r) == r[2]
DataRec(t) == <<t, 0>>

\* hsize_t subtraction (unsigned, wraps)
HSub(a, b) == (a - b + HSIZE_MOD) % HSIZE_MOD

\* Table::size
size(tbl) == Len(tbl)

\* Table::getRecords: the two conditions under which it throws
getRecordsThrows(tbl, first, last) ==
    \/ first >= size(tbl)
    \/ last >= size(tbl)
    \/ last < first

\* Table::getRecords: the records first..last (inclusive) when it does not throw
getRecords(tbl, first, last) == SubSeq(tbl, first + 1, last + 1)

\* Table::getRecords(first, last, &records) as a whole: the exception it
\* throws, or the records it reads
Read(err, recs) == [err |-> err, recs |-> recs]

Table_getRecords_rangeFirst(tbl, first, last) ==
    IF last < first THEN Read("BadRange", <<>>)
    ELSE IF first >= size(tbl) \/ last >= size(tbl) THEN Read("IndexOutOfRange", <<>>)
    ELSE Read("", [i \in 1..(HSub(last, first) + 1) |-> tbl[first + i]])

Table_getRecords(tbl, first, last) ==
    IF first >= size(tbl) \/ last >= size(tbl) THEN Read("IndexOutOfRange", <<>>)
    ELSE IF last < first THEN Read("BadRange", <<>>)
    ELSE Read("", [i \in 1..(HSub(last, first) + 1) |-> tbl[first + i]])

\* Table::recordsAsMemoryBlockPtr(first, last)
recordsAsMemoryBlockPtr(tbl, first, last) ==
    IF first >= size(tbl) \/ last >= size(tbl) THEN Read("IndexOutOfRange", <<>>)
    ELSE IF last < first THEN Read("BadRange", <<>>)
    ELSE Read("", [i \in 1..(HSub(last, first) + 1) |-> tbl[first + i]])

IsSorted(tbl) == \A i \in 1..Len(tbl), j \in 1..Len(tbl) : i < j => Ts(tbl[i]) <= Ts(tbl[j])

\* ---------------------------------------------------------------------
\* qsort with record_cmp: orders by timestamp; the order of records with
\* equal timestamps is unspecified (rev picks one of two tie orders)
\* ---------------------------------------------------------------------
record_cmp(a, b) == IF Ts(a) < Ts(b) THEN -1 ELSE IF Ts(a) = Ts(b) THEN 0 ELSE 1

RECURSIVE InsertSorted(_, _, _)
InsertSorted(r, s, rev) ==
    IF s = <<>> THEN <<r>>
    ELSE LET c == record_cmp(r, Head(s))
         IN IF c < 0 \/ (c = 0 /\ rev)
            THEN <<r>> \o s
            ELSE <<Head(s)>> \o InsertSorted(r, Tail(s), rev)

RECURSIVE qsort(_, _)
qsort(s, rev) ==
    IF s = <<>> THEN <<>>
    ELSE InsertSorted(s[Len(s)], qsort(SubSeq(s, 1, Len(s) - 1), rev), rev)

\* ---------------------------------------------------------------------
\* Timestamp lookups.  lv is the chain of tables: lv[1] the data table of
\* the series, lv[k+1] the data table of the _TSDB_index of level k (it
\* exists iff Len(lv) > k).  A lookup result is [st, id] with st one of
\* "ok" (returns 0), "none" (returns -1) or "throw" (TableException).
\* ---------------------------------------------------------------------
Found(i) == [st |-> "ok", id |-> i]
NotFound == [st |-> "none", id |-> 0]
Thrown == [st |-> "throw", id |-> 0]

\* recordId_LE: the inner backward loop that looks for the start of the
\* group of matchts; i is the signed array index into the bracket
RECURSIVE LE_inner(_, _, _, _)
LE_inner(recs, first, i, matchts) ==
    IF i < 0 THEN 0
    ELSE IF matchts > Ts(recs[i + 1]) THEN first + i + 1
    ELSE LE_inner(recs, first, i - 1, matchts)

\* recordId_LE: the outer backward loop
RECURSIVE LE_scan(_, _, _, _)
LE_scan(recs, first, i, t) ==
    IF i < 0 THEN NotFound
    ELSE IF Ts(recs[i + 1]) <= t
         THEN Found(LE_inner(recs, first, i, Ts(recs[i + 1])))
         ELSE LE_scan(recs, first, i - 1, t)

\* recordId_GE: the forward loop
RECURSIVE GE_scan(_, _, _, _)
GE_scan(recs, first, i, t) ==
    IF i >= Len(recs) THEN NotFound
    ELSE IF Ts(recs[i + 1]) >= t THEN Found(first + i)
    ELSE GE_scan(recs, first, i + 1, t)

RECURSIVE recordId_LE(_, _, _)
RECURSIVE recordId_GE(_, _, _)

\* The bracket [tbl_first_id, tbl_last_id] both lookups compute from the
\* results le and ge of the two lookups in the child index.  kind is
\* "direct" when the index holds the timestamp itself, "range" or "throw".
Bracket(lv, k, t, le, ge) ==
    LET indx_LE == lv[k + 1][le.id + 1]
        indx_GE == lv[k + 1][ge.id + 1]
    IN IF le.st = "throw"
       THEN [kind |-> "throw", first |-> 0, last |-> 0]
       ELSE IF le.st = "ok" /\ Ts(indx_LE) = t
       THEN [kind |-> "direct", first |-> Rid(indx_LE), last |-> 0]
       ELSE IF ge.st = "throw"
       THEN [kind |-> "throw", first |-> 0, last |-> 0]
       ELSE [kind |-> "range",
             first |-> IF le.st = "none" THEN 0 ELSE Rid(indx_LE),
             last |-> IF ge.st = "none" THEN HSub(size(lv[k]), 1) ELSE Rid(indx_GE)]

\* the bracket of the series of level k: from its index if it has one,
\* else the whole table
IndexBracket(lv, k, t) ==
    IF Len(lv) > k
    THEN Bracket(lv, k, t, recordId_LE(lv, k + 1, t), recordId_GE(lv, k + 1, t))
    ELSE [kind |-> "range", first |-> 0, last |-> HSub(size(lv[k]), 1)]

\* recordId_LE once the bracket b is known
LE_bracket(lv, k, t, b) ==
    IF b.kind = "throw" THEN Thrown
    ELSE IF b.kind = "direct" THEN Found(b.first)
    ELSE IF getRecordsThrows(lv[k], b.first, b.last) THEN Thrown
    ELSE LE_scan(getRecords(lv[k], b.first, b.last), b.first, b.last - b.first, t)

\* recordId_GE once the bracket b is known
GE_bracket(lv, k, t, b) ==
    IF b.kind = "throw" THEN Thrown
    ELSE IF b.kind = "direct" THEN Found(b.first)
    ELSE IF getRecordsThrows(lv[k], b.first, b.last) THEN Thrown
    ELSE GE_scan(getRecords(lv[k], b.first, b.last), b.first, 0, t)

recordId_LE(lv, k, t) == LE_bracket(lv, k, t, IndexBracket(lv, k, t))

recordId_GE(lv, k, t) == GE_bracket(lv, k, t, IndexBracket(lv, k, t))

\* ---------------------------------------------------------------------
\* Timeseries::recordSet(start, end) on the top series.  st is "ok",
\* "BadRange", "NoRecords" or "throw" (a TableException of the lookups or
\* of the table read); recs are the records of the returned RecordSet.
\* ---------------------------------------------------------------------
RSet(st, first, last, recs) == [st |-> st, first |-> first, last |-> last, recs |-> recs]

\* recordSet from the results of its lookups: s of recordId_GE(start),
\* l of recordId_LE(end), g of recordId_GE(end + 1)
recordSetOf(lv, start, end, s, l, g) ==
    LET start_id == s.id
        end_id == IF g.st = "none" THEN HSub(size(lv[1]), 1) ELSE HSub(g.id, 1)
    IN IF start > end THEN RSet("BadRange", 0, 0, <<>>)
       ELSE IF s.st = "throw" THEN RSet("throw", 0, 0, <<>>)
       ELSE IF s.st = "none" THEN RSet("NoRecords", 0, 0, <<>>)
       ELSE IF l.st = "throw" THEN RSet("throw", 0, 0, <<>>)
       ELSE IF l.st = "none" THEN RSet("NoRecords", 0, 0, <<>>)
       ELSE IF g.st = "throw" THEN RSet("throw", 0, 0, <<>>)
       ELSE IF end_id < start_id THEN RSet("ok", 0, 0, <<>>)
       ELSE IF getRecordsThrows(lv[1], start_id, end_id) THEN RSet("throw", 0, 0, <<>>)
       ELSE RSet("ok", start_id, end_id, getRecords(lv[1], start_id, end_id))

recordSet(lv, start, end) ==
    recordSetOf(lv, start, end, recordId_GE(lv, 1, start), recordId_LE(lv, 1, end),
                recordId_GE(lv, 1, end + 1))

\* getNRecordsByTimestamp from the results of its lookups, as recordSetOf;
\* n is the count returned
Counted(st, n) == [st |-> st, n |-> n]

getNRecordsByTimestampOf(lv, start, end, s, l, g) ==
    LET start_id == s.id
        end_id == IF g.st = "none" THEN HSub(size(lv[1]), 1) ELSE HSub(g.id, 1)
    IN IF start > end THEN Counted("ok", 0)
       ELSE IF s.st = "throw" THEN Counted("throw", 0)
       ELSE IF s.st = "none" THEN Counted("ok", 0)
       ELSE IF l.st = "throw" THEN Counted("throw", 0)
       ELSE IF l.st = "none" THEN Counted("ok", 0)
       ELSE IF g.st = "throw" THEN Counted("throw", 0)
       ELSE IF end_id < start_id THEN Counted("ok", 0)
       ELSE Counted("ok", (HSub(end_id, start_id) + 1) % HSIZE_MOD)

getNRecordsByTimestamp(lv, start, end) ==
    getNRecordsByTimestampOf(lv, start, end, recordId_GE(lv, 1, start),
                             recordId_LE(lv, 1, end), recordId_GE(lv, 1, end + 1))

\* ---------------------------------------------------------------------
\* The append pipeline.  e is the environment of one call:
\*   e.fuel  the number of H5TBappend_records calls that succeed before
\*           one fails (NoFail: none fails)
\*   e.ub    what the read through the NULL last-index-record pointer in
\*           indexTail yields: UBCrash or a stray record id
\*   e.rev   the tie order qsort happens to produce
\* A result is [lv, e, ret, err]: the tables afterwards, the environment
\* left, the return value and the exception ("" when it returns normally).
\* ---------------------------------------------------------------------
Res(lv, e, ret, err) == [lv |-> lv, e |-> e, ret |-> ret, err |-> err]

\* Table::appendRecords on table k
Table_appendRecords(lv, k, recs, e) ==
    IF e.fuel = 0
    THEN Res(lv, e, 0, "Storage")
    ELSE Res([lv EXCEPT ![k] = @ \o recs], [e EXCEPT !.fuel = @ - 1], 0, "")

\* appendRecords: the test that decides whether the batch is sorted
\* (prevts keeps the timestamp of the first record throughout the loop)
needsSort(batch) ==
    /\ Len(batch) > 1
    /\ \E i \in 2..Len(batch) : Ts(batch[1]) > Ts(batch[i])

\* appendRecords: index of the first record with timestamp >= prevts in
\* the discard loop, or Len(recs) when there is none (0-based)
RECURSIVE firstKept(_, _, _)
firstKept(recs, prevts, i) ==
    IF i >= Len(recs) THEN i
    ELSE IF Ts(recs[i + 1]) >= prevts THEN i
    ELSE firstKept(recs, prevts, i + 1)

\* indexTail: the scan of the search block for the first record whose
\* timestamp differs from prevts; returns <<thists, i>> at loop exit
RECURSIVE tailSearch(_, _, _, _)
tailSearch(blk, prevts, thists, i) ==
    IF prevts = thists /\ i < Len(blk)
    THEN tailSearch(blk, prevts, Ts(blk[i + 1]), i + 1)
    ELSE <<thists, i>>

\* indexTail: the block loop; returns indx_records_v
RECURSIVE tailBlocks(_, _, _)
tailBlocks(tbl, blk_start, acc) ==
    LET tbl_nrecords == size(tbl)
        prevts == Ts(tbl[blk_start])
        thists == Ts(tbl[blk_start + 1])
        blk == IF tbl_nrecords - blk_start < INDEX_STEP - 1
               THEN getRecords(tbl, blk_start, tbl_nrecords - 1)
               ELSE getRecords(tbl, blk_start, blk_start + INDEX_STEP - 1 - 1)
        sr == tailSearch(blk, prevts, thists, 0)
    IN IF ~(blk_start < tbl_nrecords) THEN acc
       ELSE IF prevts < thists
       THEN tailBlocks(tbl, blk_start + INDEX_STEP, Append(acc, <<thists, blk_start>>))
       ELSE IF prevts < sr[1]
       THEN tailBlocks(tbl, blk_start + (sr[2] - 1) + INDEX_STEP,
                       Append(acc, <<sr[1], blk_start + (sr[2] - 1)>>))
       ELSE tailBlocks(tbl, blk_start + INDEX_STEP, acc)

\* the variant of overlaps that also rejects a batch starting at the last
\* timestamp
overlaps_ge(prevts, curts) == prevts >= curts

\* appendRecords: the test "are the records all after the last record";
\* prevts is the last stored timestamp, curts the first of the batch
overlaps(prevts, curts) == prevts > curts

RECURSIVE appendRecords(_, _, _, _, _)
RECURSIVE indexTail(_, _, _)
RECURSIVE createIndexIfNecessary(_, _, _)
RECURSIVE buildLoop(_, _, _, _, _)

\* the variant of buildStep that leaves out the increment of the for loop
buildStep_noIncrement(a, k, i, tbl_nrecords) ==
    IF a.err # "" THEN a
    ELSE buildLoop(a.lv, k, i + INDEX_STEP - 1, tbl_nrecords, a.e)

\* createIndexIfNecessary: the rest of a loop round that added an index
\* record, a being the result of that append
buildStep(a, k, i, tbl_nrecords) ==
    IF a.err # "" THEN a
    ELSE buildLoop(a.lv, k, i + INDEX_STEP - 1 + 1, tbl_nrecords, a.e)

\* createIndexIfNecessary: the loop over the existing data; i is the
\* candidate record id, tbl_nrecords the size read before the loop
buildLoop(lv, k, i, tbl_nrecords, e) ==
    IF ~(i < tbl_nrecords) THEN Res(lv, e, TRUE, "")
    ELSE IF getRecordsThrows(lv[k], HSub(i, 1), i) THEN Res(lv, e, TRUE, "TableException")
    ELSE IF Ts(lv[k][i]) # Ts(lv[k][i + 1])
    THEN buildStep(appendRecords(lv, k + 1, << <<Ts(lv[k][i + 1]), i>> >>, TRUE, e),
                   k, i, tbl_nrecords)
    ELSE buildLoop(lv, k, i + 1, tbl_nrecords, e)

\* ret is the bool the source returns
createIndexIfNecessary(lv, k, e) ==
    IF Len(lv) > k THEN Res(lv, e, FALSE, "")
    ELSE IF size(lv[k]) <= SPLIT_INDEX_GT THEN Res(lv, e, TRUE, "")
    ELSE buildLoop(Append(lv, <<>>), k, INDEX_STEP - 1, size(lv[k]), e)

\* a void function that ends with the call whose result is a
returnsVoid(a) == Res(a.lv, a.e, 0, a.err)

\* indexTail after its call of createIndexIfNecessary, whose result is c
indexExisting(c, k) ==
    LET indx == c.lv[k + 1]
        last_rid == IF size(indx) = 0 THEN c.e.ub ELSE Rid(indx[Len(indx)])
        indx_records_v == tailBlocks(c.lv[k], last_rid + INDEX_STEP, <<>>)
    IN IF c.err # "" THEN c
       ELSE IF c.ret THEN Res(c.lv, c.e, 0, "")
       ELSE IF size(indx) = 0 /\ c.e.ub = UBCrash THEN Res(c.lv, c.e, 0, "Crash")
       ELSE IF Len(indx_records_v) > 0
       THEN returnsVoid(appendRecords(c.lv, k + 1, indx_records_v, TRUE, c.e))
       ELSE Res(c.lv, c.e, 0, "")

indexTail(lv, k, e) == indexExisting(createIndexIfNecessary(lv, k, e), k)

\* appendRecords: "return i" (or "return 0") after indexTail, whose
\* result is it
returnsCount(it, i) == Res(it.lv, it.e, IF it.err = "" THEN i ELSE 0, it.err)

\* appendRecords after its write to the table, whose result is w: the
\* index is brought up to date and i is returned
indexWritten(w, k, i) ==
    IF w.err # "" THEN w ELSE returnsCount(indexTail(w.lv, k, w.e), i)

\* appendRecords once the batch is in the order it is written in
appendOrdered(lv, k, records, discard_overlap, e) ==
    LET curts == Ts(records[1])
        tbl == lv[k]
        prevts == Ts(tbl[Len(tbl)])
        i == firstKept(records, prevts, 0)
    IN IF size(tbl) > 0 /\ overlaps(prevts, curts)
       THEN IF ~discard_overlap THEN Res(lv, e, 0, "TimestampOverlap")
            ELSE IF i < Len(records)
            THEN indexWritten(Table_appendRecords(lv, k, SubSeq(records, i + 1, Len(records)), e),
                              k, i)
            ELSE Res(lv, e, i, "")
       ELSE indexWritten(Table_appendRecords(lv, k, records, e), k, 0)

\* Timeseries::appendRecords on the series of level k
appendRecords(lv, k, batch, discard_overlap, e) ==
    IF Len(batch) = 0 THEN Res(lv, e, 0, "")
    ELSE appendOrdered(lv, k, IF needsSort(batch) THEN qsort(batch, e.rev) ELSE batch,
                       discard_overlap, e)

\* ---------------------------------------------------------------------
\* State
\*   tables             the persisted tables of the series (the chain lv)
\*   my_append_buffer   the records in the append buffer of the data Table
\*   my_buffer_last_ts  Timeseries::my_buffer_last_ts
\*   hist               the records stored through this handle, in the
\*                      order of the calls that stored them
\*   last               the recorded call: its arguments, the state it was
\*                      made in and what it returned
\* A behaviour is a sequence of calls on one series.  The calls are not
\* recorded (last stays NoCall) up to one call that is: it is recorded in
\* last with the state it was made in and the behaviour ends there, so
\* that every call of every reachable state is recorded in some behaviour.
\* ---------------------------------------------------------------------
VARIABLES tables, my_append_buffer, my_buffer_last_ts, hist, last, brs, returned

vars == <<tables, my_append_buffer, my_buffer_last_ts, hist, last, brs, returned>>

NoCall == [op |-> "none", batch |-> <<>>, discard |-> FALSE, t1 |-> 0, t2 |-> 0,
           fuel |-> NoFail, pre |-> <<>>, preBuf |-> <<>>, ret |-> 0, err |-> "",
           st |-> "", id |-> 0, recs |-> <<>>, id1 |-> 0, id2 |-> 0,
           width |-> 0]

\* BufferedRecordSet::BufferedRecordSet(table, first, last); a
\* my_buffer_ptr without a memory block is <<>>
BufferedRecordSet(first, last_id) ==
    [my_first |-> first, my_last |-> last_id, my_buf_first |-> 0, my_nbufrecords |-> 0,
     my_buffer_ptr |-> <<>>, my_is_buffer_empty |-> FALSE, my_buffer_direction |-> TRUE]

\* BufferedRecordSet::BufferedRecordSet(void)
EmptyBufferedRecordSet ==
    [my_first |-> 0, my_last |-> 0, my_buf_first |-> 0, my_nbufrecords |-> 0,
     my_buffer_ptr |-> <<>>, my_is_buffer_empty |-> TRUE, my_buffer_direction |-> TRUE]

Init ==
    /\ tables = << <<>> >>
    /\ my_append_buffer = <<>>
    /\ my_buffer_last_ts = LLONG_MIN
    /\ hist = <<>>
    /\ last = NoCall
    /\ brs = EmptyBufferedRecordSet
    /\ returned = <<>>

stored == size(tables[1]) + Len(my_append_buffer)

Batches == UNION {[1..n -> {DataRec(t) : t \in Timestamps}] : n \in 1..MaxBatch}

\* the timestamps the lookups are called with
QueryTs == 0..(MaxTs + 1)

Env(fuel, ub, rev) == [fuel |-> fuel, ub |-> ub, rev |-> rev]

\* The environments that make a difference for a call whose run without
\* storage failure, ending at the NULL read, is r0: a write can only fail
\* if it is made, the NULL read only matters if it happens
Fuels(r0) == {NoFail} \cup {f \in 0..(MaxFail - 1) : r0.err = "Crash" \/ f < NoFail - r0.e.fuel}
UBs(r0) == IF r0.err = "Crash" THEN {UBCrash} \cup StrayIds ELSE {UBCrash}
Revs == IF Len(tables) > 1 THEN BOOLEAN ELSE {FALSE}

\* a call made in the current state
Call(op) == [NoCall EXCEPT !.op = op, !.pre = tables, !.preBuf = my_append_buffer]

\* What is observed of the calls that change the series is the mode obs:
\*   "call"   one of them is the recorded call
\*   "order"  none is recorded, hist follows the order of the stored records
\*   "quiet"  none is recorded (the recorded call is a lookup)
\* A crash ends the process, the next handle starts from the stored table.
Observe(obs, rec, call, stored_recs) ==
    /\ UNCHANGED <<brs, returned>>
    /\ last' = IF rec THEN call ELSE NoCall
    /\ hist' = IF obs # "order" THEN hist
               ELSE IF call.err = "Crash" THEN tables'[1] ELSE hist \o stored_recs

Recs(obs) == IF obs = "call" THEN BOOLEAN ELSE {FALSE}

\* the number of records the series is let grow to
Cap(obs) == IF obs = "order" THEN MaxOrdered ELSE MaxRecords

NewRecs(lv) == SubSeq(lv[1], size(tables[1]) + 1, size(lv[1]))

\* the state after a call of appendRecords that ended as r
Appended(obs, rec, call, r) ==
    /\ tables' = r.lv
    /\ my_append_buffer' = IF r.err = "Crash" THEN <<>> ELSE my_append_buffer
    /\ my_buffer_last_ts' = IF r.err = "Crash" THEN LLONG_MIN ELSE my_buffer_last_ts
    /\ Observe(obs, rec, [call EXCEPT !.ret = r.ret, !.err = r.err], NewRecs(r.lv))

\* the environments of a call: r0 is its run in the untroubled one
Envs(r0, rev) == {Env(fuel, ub, rev) : fuel \in Fuels(r0), ub \in UBs(r0)}

\* Timeseries::appendRecords(nrecords, records, discard_overlap)
AppendRecords(obs) ==
    \E batch \in Batches, discard_overlap \in BOOLEAN, rev \in Revs, rec \in Recs(obs) :
      /\ last = NoCall
      /\ stored + Len(batch) <= Cap(obs)
      /\ \E e \in Envs(appendRecords(tables, 1, batch, discard_overlap,
                                     Env(NoFail, UBCrash, rev)), rev) :
           Appended(obs, rec, [Call("appendRecords") EXCEPT !.batch = batch,
                                   !.discard = discard_overlap, !.fuel = e.fuel],
                    appendRecords(tables, 1, batch, discard_overlap, e))

\* the variant of Table_flushAppendBuffer that empties the buffer without
\* writing it
Table_flushAppendBuffer_drop(lv, buf, e) == Res(lv, e, 0, "")

\* Table::flushAppendBuffer on the data table holding buffer buf; ret is
\* my_nappendbuf afterwards
Table_flushAppendBuffer(lv, buf, e) ==
    LET w == Table_appendRecords(lv, 1, buf, e)
    IN IF Len(buf) > 0
       THEN (IF w.err # "" THEN Res(lv, e, Len(buf), w.err) ELSE Res(w.lv, w.e, 0, ""))
       ELSE Res(lv, e, Len(buf), "")

\* a flush of buffer buf by the Timeseries: the Table flush, then (the
\* buffer being empty) my_buffer_last_ts is reset and indexTail runs;
\* ret is 1 when the Table flush threw, else 0
FlushAndIndex(buf, e) ==
    LET w == Table_flushAppendBuffer(tables, buf, e)
    IN IF w.err # "" THEN Res(w.lv, w.e, 1, w.err) ELSE returnsVoid(indexTail(w.lv, 1, w.e))

\* the state after a call that flushed (or tried to flush) buffer buf
Flushed(obs, rec, call, buf, r) ==
    /\ tables' = r.lv
    /\ my_append_buffer' = IF r.ret = 1 THEN buf ELSE <<>>
    /\ my_buffer_last_ts' = IF r.ret = 1 THEN my_buffer_last_ts ELSE LLONG_MIN
    /\ Observe(obs, rec, [call EXCEPT !.err = r.err],
               IF call.op = "appendRecord" THEN <<DataRec(call.t1)>> ELSE <<>>)

\* the variant of lastTsBuffered that advances the watermark to the
\* timestamp of the accepted record
lastTsBuffered_advance(last_ts, record_ts) == record_ts

\* appendRecord: my_buffer_last_ts after a record of timestamp record_ts
\* went into the buffer without a flush (no assignment is made)
lastTsBuffered(last_ts, record_ts) == last_ts

\* Timeseries::appendRecord(record) with record timestamp t
AppendRecord(obs) ==
    \E t \in Timestamps, rec \in Recs(obs) :
      /\ last = NoCall
      /\ stored + 1 <= Cap(obs)
      /\ LET call == [Call("appendRecord") EXCEPT !.t1 = t]
             buf == Append(my_append_buffer, DataRec(t))
         IN IF ~(t >= my_buffer_last_ts)
            THEN /\ UNCHANGED <<tables, my_append_buffer, my_buffer_last_ts>>
                 /\ Observe(obs, rec, [call EXCEPT !.err = "misordered"], <<>>)
            ELSE IF Len(my_append_buffer) >= APPEND_BUFFER_SIZE
            THEN \* the buffer is still full after a flush that failed: the
                 \* record is copied past its end, which ends the process
                 \* or goes unnoticed
                 \E crash \in BOOLEAN :
                   /\ my_append_buffer' = IF crash THEN <<>> ELSE buf
                   /\ my_buffer_last_ts' = IF crash THEN LLONG_MIN
                                           ELSE lastTsBuffered(my_buffer_last_ts, t)
                   /\ UNCHANGED tables
                   /\ Observe(obs, rec, [call EXCEPT !.err = IF crash THEN "Crash" ELSE ""],
                              <<DataRec(t)>>)
            ELSE IF Len(buf) = APPEND_BUFFER_SIZE
            THEN \E rev \in Revs :
                   \E e \in Envs(FlushAndIndex(buf, Env(NoFail, UBCrash, FALSE)), rev) :
                     Flushed(obs, rec, [call EXCEPT !.fuel = e.fuel], buf, FlushAndIndex(buf, e))
            ELSE /\ my_append_buffer' = buf
                 /\ my_buffer_last_ts' = lastTsBuffered(my_buffer_last_ts, t)
                 /\ UNCHANGED tables
                 /\ Observe(obs, rec, call, <<DataRec(t)>>)

\* Timeseries::flushAppendBuffer()
FlushAppendBuffer(obs) ==
    \E rec \in Recs(obs) :
      /\ last = NoCall
      /\ \E rev \in Revs :
           \E e \in Envs(FlushAndIndex(my_append_buffer, Env(NoFail, UBCrash, FALSE)), rev) :
             Flushed(obs, rec, [Call("flushAppendBuffer") EXCEPT !.fuel = e.fuel],
                     my_append_buffer, FlushAndIndex(my_append_buffer, e))

\* The handle is destroyed (Table::~Table flushes the buffer to the data
\* table, without indexTail; the buffered records are gone if that write
\* fails) and the series is opened again
Reopen(obs) ==
    \E rec \in Recs(obs), fuel \in {0, NoFail} :
      /\ last = NoCall
      /\ fuel = 0 => Len(my_append_buffer) > 0
      /\ tables' = Table_flushAppendBuffer(tables, my_append_buffer, Env(fuel, UBCrash, FALSE)).lv
      /\ my_append_buffer' = <<>>
      /\ my_buffer_last_ts' = LLONG_MIN
      /\ UNCHANGED <<brs, returned>>
      /\ last' = IF rec THEN [Call("reopen") EXCEPT !.fuel = fuel] ELSE NoCall
      /\ hist' = IF obs = "order" THEN tables'[1] ELSE hist

\* the recorded call of a lookup that ended as r
Looked(call, r) == [call EXCEPT !.st = r.st, !.id = r.id]

\* the recorded call of a recordSet that ended as r
Selected(call, r) == [call EXCEPT !.st = r.st, !.id = r.first, !.recs = r.recs]

\* the recorded call of a getNRecordsByTimestamp that ended as r
CountedCall(call, r) == [call EXCEPT !.st = r.st, !.ret = r.n]

\* Timeseries::recordId_LE(timestamp, &record_id) on the series
RecordIdLE ==
    \E t \in QueryTs :
      /\ last = NoCall
      /\ UNCHANGED <<brs, returned>>
      /\ last' = Looked([Call("recordId_LE") EXCEPT !.t1 = t], recordId_LE(tables, 1, t))
      /\ UNCHANGED <<tables, my_append_buffer, my_buffer_last_ts, hist>>

\* Timeseries::recordId_GE(timestamp, &record_id) on the series
RecordIdGE ==
    \E t \in QueryTs :
      /\ last = NoCall
      /\ UNCHANGED <<brs, returned>>
      /\ last' = Looked([Call("recordId_GE") EXCEPT !.t1 = t], recordId_GE(tables, 1, t))
      /\ UNCHANGED <<tables, my_append_buffer, my_buffer_last_ts, hist>>

\* Timeseries::recordSet(start, end) on the series
RecordSet ==
    \E start \in QueryTs, end \in QueryTs :
      /\ last = NoCall
      /\ UNCHANGED <<brs, returned>>
      /\ last' = Selected([Call("recordSet") EXCEPT !.t1 = start, !.t2 = end],
                           recordSet(tables, start, end))
      /\ UNCHANGED <<tables, my_append_buffer, my_buffer_last_ts, hist>>

\* Timeseries::getNRecordsByTimestamp(start, end) on the series
GetNRecordsByTimestamp ==
    \E start \in QueryTs, end \in QueryTs :
      /\ last = NoCall
      /\ UNCHANGED <<brs, returned>>
      /\ last' = CountedCall([Call("getNRecordsByTimestamp") EXCEPT !.t1 = start, !.t2 = end],
                              getNRecordsByTimestamp(tables, start, end))
      /\ UNCHANGED <<tables, my_append_buffer, my_buffer_last_ts, hist>>

\* the appends, one of them recorded
Next ==
    \/ AppendRecords("call")
    \/ AppendRecord("call")
    \/ FlushAppendBuffer("call")
    \/ Reopen("call")

Spec == Init /\ [][Next]_vars

\* the appends and a recorded lookup
NextQuery ==
    \/ AppendRecords("quiet")
    \/ AppendRecord("quiet")
    \/ FlushAppendBuffer("quiet")
    \/ Reopen("quiet")
    \/ RecordIdLE
    \/ RecordIdGE
    \/ RecordSet
    \/ GetNRecordsByTimestamp

SpecQuery == Init /\ [][NextQuery]_vars

\* the appends, followed by hist
NextOrder ==
    \/ AppendRecords("order")
    \/ AppendRecord("order")
    \/ FlushAppendBuffer("order")
    \/ Reopen("order")

SpecOrder == Init /\ [][NextOrder]_vars

\* ---------------------------------------------------------------------
\* A Table used on its own (tables holds that table alone): its buffered
\* appends and flushes.  hist lists the records in the order of the
\* appendRecord calls; the process that crashed is gone with its buffer.
\* ---------------------------------------------------------------------
\* the state after a Table call that tried to write buffer buf, w being the
\* result of Table_flushAppendBuffer
TableFlushed(rec, call, buf, w, hist_after) ==
    /\ tables' = w.lv
    /\ my_append_buffer' = IF w.err # "" THEN buf ELSE <<>>
    /\ hist' = hist_after
    /\ UNCHANGED <<brs, returned>>
    /\ last' = IF rec THEN [call EXCEPT !.err = w.err] ELSE NoCall
    /\ UNCHANGED my_buffer_last_ts

\* Table::appendRecord(record) with record timestamp t
TableAppendRecord ==
    \E t \in Timestamps, rec \in BOOLEAN, fuel \in {0, NoFail}, crash \in BOOLEAN :
      /\ last = NoCall
      /\ stored + 1 <= MaxOrdered
      /\ LET call == [Call("Table.appendRecord") EXCEPT !.t1 = t, !.fuel = fuel]
             buf == Append(my_append_buffer, DataRec(t))
         IN IF Len(my_append_buffer) >= APPEND_BUFFER_SIZE
            THEN \* my_nappendbuf was left at APPEND_BUFFER_SIZE by a flush
                 \* that failed: the record is copied past the end of the
                 \* buffer
                 /\ fuel = NoFail
                 /\ my_append_buffer' = IF crash THEN <<>> ELSE buf
                 /\ hist' = IF crash THEN tables[1] ELSE Append(hist, DataRec(t))
                 /\ UNCHANGED <<brs, returned>>
                 /\ last' = IF rec THEN [call EXCEPT !.err = IF crash THEN "Crash" ELSE ""]
                            ELSE NoCall
                 /\ UNCHANGED <<tables, my_buffer_last_ts>>
            ELSE IF Len(buf) = APPEND_BUFFER_SIZE
            THEN /\ ~crash
                 /\ TableFlushed(rec, call, buf,
                                 Table_flushAppendBuffer(tables, buf, Env(fuel, UBCrash, FALSE)),
                                 Append(hist, DataRec(t)))
            ELSE /\ ~crash /\ fuel = NoFail
                 /\ my_append_buffer' = buf
                 /\ hist' = Append(hist, DataRec(t))
                 /\ UNCHANGED <<brs, returned>>
                 /\ last' = IF rec THEN call ELSE NoCall
                 /\ UNCHANGED <<tables, my_buffer_last_ts>>

\* Table::flushAppendBuffer()
TableFlushAppendBuffer ==
    \E rec \in BOOLEAN, fuel \in {0, NoFail} :
      /\ last = NoCall
      /\ fuel = 0 => Len(my_append_buffer) > 0
      /\ TableFlushed(rec, [Call("Table.flushAppendBuffer") EXCEPT !.fuel = fuel],
                      my_append_buffer,
                      Table_flushAppendBuffer(tables, my_append_buffer, Env(fuel, UBCrash, FALSE)),
                      hist)

\* record ids a caller may pass: those of the table, the two past its
\* end, and the largest hsize_t
ReadIds == 0..(MaxOrdered + 1) \cup {HSIZE_MOD - 1}

\* the recorded call of a read that ended as r
ReadCall(call, r) == [call EXCEPT !.err = r.err, !.recs = r.recs]

\* Table::getRecords(first, last, &records)
TableGetRecords ==
    \E first \in ReadIds, last_id \in ReadIds :
      /\ last = NoCall
      /\ UNCHANGED <<brs, returned>>
      /\ last' = ReadCall([Call("Table.getRecords") EXCEPT !.id1 = first, !.id2 = last_id],
                          Table_getRecords(tables[1], first, last_id))
      /\ UNCHANGED <<tables, my_append_buffer, my_buffer_last_ts, hist>>

\* Table::recordsAsMemoryBlockPtr(first, last)
TableRecordsAsMemoryBlockPtr ==
    \E first \in ReadIds, last_id \in ReadIds :
      /\ last = NoCall
      /\ UNCHANGED <<brs, returned>>
      /\ last' = ReadCall([Call("Table.recordsAsMemoryBlockPtr") EXCEPT !.id1 = first, !.id2 = last_id],
                          recordsAsMemoryBlockPtr(tables[1], first, last_id))
      /\ UNCHANGED <<tables, my_append_buffer, my_buffer_last_ts, hist>>

NextTable ==
    \/ TableAppendRecord
    \/ TableFlushAppendBuffer
    \/ TableGetRecords
    \/ TableRecordsAsMemoryBlockPtr

SpecTable == Init /\ [][NextTable]_vars

\* ---------------------------------------------------------------------
\* A series that is only ever given records with distinct ascending
\* timestamps, in appendRecords batches.  A call that fails is the
\* recorded call.
\* ---------------------------------------------------------------------
\* the timestamp of the last record of the series (0 when it is empty)
lastStoredTs == IF size(tables[1]) = 0 THEN 0 ELSE Ts(tables[1][size(tables[1])])

\* the batches of n records that continue the series with strictly
\* ascending timestamps (steps of 1 or 2)
AscendingBatches(n) ==
    {b \in [1..n -> {DataRec(t) : t \in 1..(2 * MaxAscending)}] :
        /\ Ts(b[1]) - lastStoredTs \in {1, 2}
        /\ \A i \in 1..(n - 1) : Ts(b[i + 1]) - Ts(b[i]) \in {1, 2}}

\* Timeseries::appendRecords with an ascending batch
AppendAscending ==
    \E n \in 1..MaxBatch, discard_overlap \in BOOLEAN, rec \in BOOLEAN,
       fuel \in {NoFail} \cup 0..(MaxFail - 1) :
      /\ last = NoCall
      /\ size(tables[1]) + n <= MaxAscending
      /\ \E batch \in AscendingBatches(n) :
           Appended("call", rec \/ fuel # NoFail,
                    [Call("appendRecords") EXCEPT !.batch = batch,
                         !.discard = discard_overlap, !.fuel = fuel],
                    appendRecords(tables, 1, batch, discard_overlap, Env(fuel, UBCrash, FALSE)))

SpecAscending == Init /\ [][AppendAscending]_vars

\* ---------------------------------------------------------------------
\* A BufferedRecordSet over records of a Table.  The table is filled with
\* records that all differ (record id k has timestamp k + 1); last is the
\* latest record(i) call, returned a Record an earlier call returned and
\* the caller kept.
\* ---------------------------------------------------------------------
Loaded(b, err) == [brs |-> b, err |-> err]

\* the window after a read w of the table records it covers
Window(b, w, buf_first, nrecords) ==
    IF w.err # "" THEN Loaded(b, w.err)
    ELSE Loaded([b EXCEPT !.my_buffer_ptr = w.recs, !.my_buf_first = buf_first,
                          !.my_nbufrecords = nrecords], "")

\* BufferedRecordSet::loadRecords(first, nrecords), forward direction
\* without the trim at my_last
loadForward_noTrim(tbl, b, first, nrecords) ==
    Window(b, recordsAsMemoryBlockPtr(tbl, b.my_first + first, b.my_first + first + nrecords - 1),
           first, nrecords)

loadForward(tbl, b, first, nrecords) ==
    LET n == IF b.my_first + first + nrecords - 1 > b.my_last
             THEN HSub(b.my_last, b.my_first + first) + 1
             ELSE nrecords
    IN Window(b, recordsAsMemoryBlockPtr(tbl, b.my_first + first, b.my_first + first + n - 1),
              first, n)

loadReverse(tbl, b, first, nrecords) ==
    LET n == IF first < nrecords - 1 THEN first + 1 ELSE nrecords
    IN Window(b, recordsAsMemoryBlockPtr(tbl, b.my_first + first - (n - 1), b.my_first + first),
              first - (n - 1), n)

\* BufferedRecordSet::loadRecords(first, nrecords)
loadRecords(tbl, b, first, nrecords) ==
    IF b.my_buffer_direction THEN loadForward(tbl, b, first, nrecords)
    ELSE loadReverse(tbl, b, first, nrecords)

\* BufferedRecordSet::record(i): the copy made from the window w
Copied(w, i) ==
    [brs |-> w.brs, err |-> w.err,
     rec |-> IF w.err = "" THEN <<w.brs.my_buffer_ptr[i - w.brs.my_buf_first + 1]>> ELSE <<>>]

\* BufferedRecordSet::record(i)
record(tbl, b, i) ==
    IF b.my_is_buffer_empty THEN [brs |-> b, err |-> "Empty", rec |-> <<>>]
    ELSE IF i <= HSub(b.my_last, b.my_first)
    THEN IF /\ b.my_buffer_ptr # <<>>
            /\ i >= b.my_buf_first
            /\ i <= b.my_buf_first + b.my_nbufrecords - 1
         THEN Copied(Loaded(b, ""), i)
         ELSE Copied(loadRecords(tbl, b, i, my_BUFFER_SIZE), i)
    ELSE [brs |-> b, err |-> "OutOfBounds", rec |-> <<>>]

\* no call of the table was recorded
SetLive == last.op \in {"none", "BufferedRecordSet.record"}

\* Table::appendRecords(n, records) with n new records
Fill ==
    \E n \in 1..MaxBatch :
      /\ SetLive
      /\ size(tables[1]) + n <= MaxOrdered
      /\ tables' = Table_appendRecords(tables, 1, [j \in 1..n |-> DataRec(size(tables[1]) + j)],
                                       Env(NoFail, UBCrash, FALSE)).lv
      /\ UNCHANGED <<my_append_buffer, my_buffer_last_ts, hist, last, brs, returned>>

\* a BufferedRecordSet is made over the records first..last of the table
NewBufferedRecordSet ==
    \E first \in 0..(size(tables[1]) - 1), last_id \in 0..(size(tables[1]) - 1) :
      /\ SetLive
      /\ first <= last_id
      /\ brs' = BufferedRecordSet(first, last_id)
      /\ returned' = <<>>
      /\ last' = NoCall
      /\ UNCHANGED <<tables, my_append_buffer, my_buffer_last_ts, hist>>

\* BufferedRecordSet::set_my_buffer_direction(direction)
SetBufferDirection ==
    \E direction \in BOOLEAN :
      /\ SetLive
      /\ brs' = [brs EXCEPT !.my_buffer_direction = direction]
      /\ UNCHANGED <<tables, my_append_buffer, my_buffer_last_ts, hist, last, returned>>

\* the state after a record(i) call that ended as r; keep: the caller
\* holds on to the Record
Recorded(i, keep, r) ==
    /\ brs' = r.brs
    /\ last' = [Call("BufferedRecordSet.record") EXCEPT !.id = i, !.err = r.err, !.recs = r.rec]
    /\ returned' = IF keep /\ r.err = "" THEN <<i>> \o r.rec ELSE returned
    /\ UNCHANGED <<tables, my_append_buffer, my_buffer_last_ts, hist>>

\* BufferedRecordSet::record(i)
RecordAt ==
    \E i \in ReadIds, keep \in BOOLEAN :
      /\ SetLive
      /\ Recorded(i, keep, record(tables[1], brs, i))

NextBuffered ==
    \/ Fill
    \/ NewBufferedRecordSet
    \/ SetBufferDirection
    \/ RecordAt

SpecBuffered == Init /\ [][NextBuffered]_vars

\* ---------------------------------------------------------------------
\* A RecordSet in memory: my_nrecords records of getSizeOf() bytes each in
\* a memory block of my_nrecords * getSizeOf() bytes.  A Record is the
\* byte offset into the block it refers to.
\* ---------------------------------------------------------------------
\* RecordSet::RecordSet(nrecords, structure)
RecordSetOf(nrecords, getSizeOf) ==
    [my_nrecords |-> nrecords, getSizeOf |-> getSizeOf, my_structure |-> TRUE]

\* RecordSet::RecordSet(): no structure and no memory block
EmptyRecordSet == [my_nrecords |-> 0, getSizeOf |-> 0, my_structure |-> FALSE]

View(err, offset, width) == [err |-> err, offset |-> offset, width |-> width]

\* RecordSet::operator[](i).  Without a structure getSizeOf() is called
\* through a null pointer: the call crashes (ub = UBCrash) or reads some
\* size ub
RecordSet_at(rs, i, ub) ==
    IF rs.my_structure THEN View("", rs.getSizeOf * i, rs.getSizeOf)
    ELSE IF ub = UBCrash THEN View("Crash", 0, 0)
    ELSE View("", ub * i, ub)

\* the recorded call of an operator[] that ended as v
Viewed(call, v) == [call EXCEPT !.err = v.err, !.ret = v.offset, !.width = v.width]

\* RecordSet::operator[](i) on a RecordSet of nrecords records
RecordSetIndex ==
    \E nrecords \in 0..MaxSetRecords, getSizeOf \in 1..MaxRecordSize,
       i \in 0..(MaxSetRecords + 2) :
      /\ last = NoCall
      /\ UNCHANGED <<brs, returned>>
      /\ last' = Viewed([Call("RecordSet.operator[]") EXCEPT !.id1 = i, !.id2 = nrecords],
                        RecordSet_at(RecordSetOf(nrecords, getSizeOf), i, UBCrash))
      /\ UNCHANGED <<tables, my_append_buffer, my_buffer_last_ts, hist>>

\* RecordSet::operator[](i) on a RecordSet made by RecordSet()
EmptyRecordSetIndex ==
    \E i \in 0..(MaxSetRecords + 2), ub \in {UBCrash} \cup (1..MaxRecordSize) :
      /\ last = NoCall
      /\ UNCHANGED <<brs, returned>>
      /\ last' = Viewed([Call("RecordSet.operator[]") EXCEPT !.id1 = i, !.id2 = 0],
                        RecordSet_at(EmptyRecordSet, i, ub))
      /\ UNCHANGED <<tables, my_append_buffer, my_buffer_last_ts, hist>>

NextRecordSet ==
    \/ RecordSetIndex
    \/ EmptyRecordSetIndex

SpecRecordSet == Init /\ [][NextRecordSet]_vars

\* ---------------------------------------------------------------------
\* Opening a table: Table::Table(loc_id, name) rebuilds the Structure from
\* the FIELD_i_TYPE attributes and the field offsets of the stored table.
\* An attribute value is one of the strings of TypeStrings; what strcmp,
\* strstr and atoi make of each is tabulated below.
\* ---------------------------------------------------------------------
FixedTypes == {"Timestamp", "Record", "Int32", "Int8", "Char", "Double", "Date"}

TypeStrings == FixedTypes \cup {"String(2)", "String(0)", "String(2", "Float"}

\* strstr(field_type_value, "String(") == field_type_value
startsWithString(v) == v \in {"String(2)", "String(0)", "String(2"}

\* strstr(field_type_value, ")") is not NULL
hasParen(v) == v \in {"String(2)", "String(0)"}

\* atoi of the characters between "String(" and ")"
atoiSize(v) == IF v = "String(2)" THEN 2 ELSE 0

FieldOf(type, field_size) == [type |-> type, size |-> field_size]

Opened(err, fields, offsets) == [err |-> err, fields |-> fields, offsets |-> offsets]

\* the loop over the fields from field i on (i counts from 1 here);
\* fieldset is set before the loop and never cleared in it
RECURSIVE loadFields(_, _, _, _, _, _)
loadFields(types, field_offsets, i, fields, offsets, fieldset) ==
    IF i > Len(types) THEN Opened("", fields, offsets)
    ELSE LET v == types[i]
             fixed == IF v \in FixedTypes THEN Append(fields, FieldOf(v, 0)) ELSE fields
         IN IF startsWithString(v) /\ ~hasParen(v) THEN Opened("Crash", <<>>, <<>>)
            ELSE IF startsWithString(v) /\ atoiSize(v) < 1
            THEN Opened("String field size is invalid", <<>>, <<>>)
            ELSE IF ~(fieldset \/ v \in FixedTypes \/ startsWithString(v))
            THEN Opened("unsupported field type", <<>>, <<>>)
            ELSE loadFields(types, field_offsets, i + 1,
                            IF startsWithString(v)
                            THEN Append(fixed, FieldOf("String", atoiSize(v)))
                            ELSE fixed,
                            Append(offsets, field_offsets[i]), TRUE)

\* Table::Table(loc_id, name) on a table that exists
Table_open(types, field_offsets) == loadFields(types, field_offsets, 1, <<>>, <<>>, FALSE)

\* the offsets H5TBget_field_info reports: field i starts at byte 8 * i
StoredOffsets(n) == [i \in 1..n |-> 8 * (i - 1)]

\* the recorded call of an open that ended as r: recs holds the Fields of
\* the Structure, each with the offset it is paired with
OpenedCall(call, r) ==
    [call EXCEPT !.err = r.err,
                 !.recs = [k \in 1..Len(r.fields) |-> <<r.fields[k], r.offsets[k]>>],
                 !.ret = Len(r.offsets)]

\* Table::Table(loc_id, name) on a stored table with the field types types
OpenTable ==
    \E n \in 1..MaxFields :
      \E types \in [1..n -> TypeStrings] :
        /\ last = NoCall
        /\ UNCHANGED <<brs, returned>>
        /\ last' = OpenedCall([Call("Table.open") EXCEPT !.batch = types],
                              Table_open(types, StoredOffsets(n)))
        /\ UNCHANGED <<tables, my_append_buffer, my_buffer_last_ts, hist>>

SpecOpen == Init /\ [][OpenTable]_vars

\* ---------------------------------------------------------------------
\* Existence tests.  A location holds, under each name, nothing, a table,
\* a group without a _TSDB_data table, or a group with one (a series).
\* status values are those of the HDF5 calls: negative on failure.
\* ---------------------------------------------------------------------
Names == {"a", "b"}

Kinds == {"absent", "table", "group", "series"}

Statuses == {0 - 1, 0}

\* H5TBget_table_info(loc_id, name, ...)
H5TBget_table_info(present) == IF present THEN 0 ELSE 0 - 1

Existed(err, st) == [err |-> err, st |-> st]

\* Table::exists(loc_id, name); present: a table called name is at loc_id;
\* auto_off, auto_on: the status of the two H5Eset_auto2 calls.  status
\* holds the result of the second H5Eset_auto2 when it is tested
Table_exists(present, auto_off, auto_on) ==
    LET status == auto_on
    IN IF auto_off < 0 THEN Existed("ErrorPrinting", "")
       ELSE IF status < 0 THEN Existed("ErrorPrinting", "")
       ELSE IF status >= 0 THEN Existed("", "true")
       ELSE Existed("", "false")

\* Timeseries::exists(loc_id, name) for a name of kind kind
Timeseries_exists(kind, auto_off, auto_on) ==
    IF auto_off < 0 \/ auto_on < 0 THEN Existed("ErrorPrinting", "")
    ELSE IF kind \notin {"group", "series"} THEN Existed("", "false")
    ELSE IF Table_exists(kind = "series", 0, 0).st # "true" THEN Existed("", "false")
    ELSE Existed("", "true")

\* Table::Table(loc_id, name) up to the table-info lookup
Table_openAt(kind, auto_off, auto_on) ==
    IF Table_exists(kind = "table", auto_off, auto_on).err # "" THEN Existed("ErrorPrinting", "")
    ELSE IF Table_exists(kind = "table", auto_off, auto_on).st # "true"
    THEN Existed("Table does not exist", "")
    ELSE IF H5TBget_table_info(kind = "table") < 0 THEN Existed("Error in H5TBget_table_info", "")
    ELSE Existed("", "")

\* the recorded call of an existence test on name in the location loc
ExistsCall(op, loc, name, r) ==
    [Call(op) EXCEPT !.pre = loc, !.batch = <<name>>, !.err = r.err, !.st = r.st]

\* Table::exists(loc_id, name)
TableExists ==
    \E loc \in [Names -> Kinds], name \in Names, auto_off \in Statuses, auto_on \in Statuses :
      /\ last = NoCall
      /\ UNCHANGED <<brs, returned>>
      /\ last' = ExistsCall("Table.exists", loc, name,
                            Table_exists(loc[name] = "table", auto_off, auto_on))
      /\ UNCHANGED <<tables, my_append_buffer, my_buffer_last_ts, hist>>

\* Timeseries::exists(loc_id, name)
TimeseriesExists ==
    \E loc \in [Names -> Kinds], name \in Names, auto_off \in Statuses, auto_on \in Statuses :
      /\ last = NoCall
      /\ UNCHANGED <<brs, returned>>
      /\ last' = ExistsCall("Timeseries.exists", loc, name,
                            Timeseries_exists(loc[name], auto_off, auto_on))
      /\ UNCHANGED <<tables, my_append_buffer, my_buffer_last_ts, hist>>

\* Table::Table(loc_id, name)
TableOpenAt ==
    \E loc \in [Names -> Kinds], name \in Names, auto_off \in Statuses, auto_on \in Statuses :
      /\ last = NoCall
      /\ UNCHANGED <<brs, returned>>
      /\ last' = ExistsCall("Table.openAt", loc, name,
                            Table_openAt(loc[name], auto_off, auto_on))
      /\ UNCHANGED <<tables, my_append_buffer, my_buffer_last_ts, hist>>

NextExists ==
    \/ TableExists
    \/ TimeseriesExists
    \/ TableOpenAt

SpecExists == Init /\ [][NextExists]_vars

\* ---------------------------------------------------------------------
\* Cells.  The bytes of a cell are what the last memcpy into it wrote: an
\* encoding, a width in bytes and the value encoded; all-zero bytes are the
\* same in every encoding.  OldBytes are the bytes before the assignment.
\* ---------------------------------------------------------------------
FieldTypes ==
    {"INT32", "INT8", "DOUBLE", "CHAR", "RECORD", "TIMESTAMP", "DATE", "STRING", "UNDEFINED"}

Bytes(enc, width, v) ==
    IF v = 0 THEN [enc |-> "zero", width |-> width, v |-> 0]
    ELSE [enc |-> enc, width |-> width, v |-> v]

OldBytes == [enc |-> "old", width |-> 0, v |-> 0]

Assigned(err, bytes) == [err |-> err, bytes |-> bytes]

\* rhs * 86400 * 1000 in int arithmetic: the product, or "overflow" when
\* it does not fit (signed overflow, any value)
temp_ts(rhs) ==
    IF 0 - DaysInt32 <= rhs /\ rhs <= DaysInt32 THEN Bytes("int64", 8, rhs * MsPerDay)
    ELSE [enc |-> "int64", width |-> 8, v |-> "overflow"]

\* memcpy of bytes to the start of a cell that holds before
memcpyOver(before, bytes) == IF bytes.width >= before.width THEN bytes ELSE before

\* Cell::operator=(const int32_t& rhs) on a cell of field type type.  The
\* TIMESTAMP case has no break: the DOUBLE case runs after it and writes
\* over the same 8 bytes
Cell_assign_int32(type, rhs) ==
    IF type = "INT32" THEN Assigned("", Bytes("int32", 4, rhs))
    ELSE IF type = "INT8"
    THEN IF rhs > 127 \/ rhs < 127 THEN Assigned("TypeConversion", OldBytes)
         ELSE Assigned("", Bytes("int8", 1, rhs))
    ELSE IF type = "DATE" THEN Assigned("", Bytes("int32", 4, rhs))
    ELSE IF type = "TIMESTAMP"
    THEN Assigned("", memcpyOver(temp_ts(rhs), Bytes("ieee64", 8, rhs)))
    ELSE IF type = "DOUBLE" THEN Assigned("", Bytes("ieee64", 8, rhs))
    ELSE Assigned("TypeConversion", OldBytes)

\* the recorded call of an assignment that ended as r: recs holds the
\* bytes of the cell after it
AssignedCall(call, r) == [call EXCEPT !.err = r.err, !.recs = <<r.bytes>>]

\* cell = rhs for a 32-bit integer rhs
AssignInt32 ==
    \E type \in FieldTypes, rhs \in (0 - MaxAssigned)..MaxAssigned :
      /\ last = NoCall
      /\ UNCHANGED <<brs, returned>>
      /\ last' = AssignedCall([Call("Cell.assign_int32") EXCEPT !.st = type, !.t1 = rhs],
                              Cell_assign_int32(type, rhs))
      /\ UNCHANGED <<tables, my_append_buffer, my_buffer_last_ts, hist>>

SpecCell == Init /\ [][AssignInt32]_vars

\* ---------------------------------------------------------------------
\* A series appended to in timestamp order, with runs of equal
\* timestamps (steps of 0 or 1).  A call that fails is the recorded call.
\* ---------------------------------------------------------------------
NondecreasingBatches(n) ==
    {b \in [1..n -> {DataRec(t) : t \in 1..MaxAscending}] :
        /\ Ts(b[1]) - lastStoredTs \in {0, 1}
        /\ \A i \in 1..(n - 1) : Ts(b[i + 1]) - Ts(b[i]) \in {0, 1}}

\* the state after a call that ended as r, recorded if it failed
AppendedInOrder(call, r) == Appended("call", r.err # "", call, r)

\* Timeseries::appendRecords with a batch in timestamp order
AppendNondecreasing ==
    \E n \in 1..MaxBatch, discard_overlap \in BOOLEAN, ub \in {UBCrash} \cup StrayIds :
      /\ last = NoCall
      /\ size(tables[1]) + n <= MaxAscending
      /\ \E batch \in NondecreasingBatches(n) :
           AppendedInOrder([Call("appendRecords") EXCEPT !.batch = batch,
                                !.discard = discard_overlap],
                           appendRecords(tables, 1, batch, discard_overlap,
                                         Env(NoFail, ub, FALSE)))

SpecNondecreasing == Init /\ [][AppendNondecreasing]_vars

\* ---------------------------------------------------------------------
\* A series loaded in bulk: every appendRecords call brings more than
\* SPLIT_INDEX_GT records, in a batch the sortedness test of appendRecords
\* lets through as it is.  A call that fails is the recorded call.
\* ---------------------------------------------------------------------
\* the state after a bulk call that ended as r
Bulked(call, r) ==
    /\ tables' = r.lv
    /\ UNCHANGED <<brs, returned>>
    /\ last' = IF r.err = "" THEN NoCall ELSE [call EXCEPT !.ret = r.ret, !.err = r.err]
    /\ UNCHANGED <<my_append_buffer, my_buffer_last_ts, hist>>

BulkBatches(n) ==
    {b \in [1..n -> {DataRec(t) : t \in 1..MaxBulkTs}] : ~needsSort(b)}

AppendBulk ==
    \E n \in (SPLIT_INDEX_GT + 1)..MaxBulk, discard_overlap \in BOOLEAN :
      /\ last = NoCall
      /\ size(tables[1]) + n <= MaxBulkRecords
      /\ \E batch \in BulkBatches(n) :
           Bulked([Call("appendRecords") EXCEPT !.batch = batch, !.discard = discard_overlap],
                  appendRecords(tables, 1, batch, discard_overlap, Env(NoFail, UBCrash, FALSE)))

SpecBulk == Init /\ [][AppendBulk]_vars

\* ---------------------------------------------------------------------
\* Properties
\* ---------------------------------------------------------------------
data == tables[1]
PublicOps == {"appendRecords", "appendRecord", "flushAppendBuffer", "reopen"}
ReturnedNormally == last.op \in PublicOps /\ last.err = ""

\* record ids (0-based) of table tbl and the timestamp of record i
Ids(tbl) == 0..(Len(tbl) - 1)
TsOf(tbl, i) == Ts(tbl[i + 1])

\* every entry of index table indx points at the first record of its
\* timestamp group in tbl
Aligned(tbl, indx) ==
    \A j \in 1..Len(indx) :
      LET rid == Rid(indx[j])
      IN /\ rid \in Ids(tbl)
         /\ TsOf(tbl, rid) = Ts(indx[j])
         /\ (rid = 0 \/ TsOf(tbl, rid - 1) < Ts(indx[j]))

\* C1: after a public append operation (appendRecords, appendRecord,
\* flushAppendBuffer, destruction and reopen) that returns normally, the
\* timestamps of the data table are nondecreasing.
C1_Monotone == ReturnedNormally => IsSorted(data)

\* C2: after a public operation that returns normally, every entry
\* (ts, rid) of _TSDB_index has record rid in the data table, with
\* timestamp ts, and rid = 0 or the record before it has a smaller timestamp.
C2_IndexAligned == (ReturnedNormally /\ Len(tables) > 1) => Aligned(data, tables[2])

\* what recordId_LE is to return on table tbl for timestamp t, as [st, id]
LE_Meets(tbl, t, st, i) ==
    IF \A j \in Ids(tbl) : TsOf(tbl, j) > t
    THEN st = "none"
    ELSE /\ st = "ok"
         /\ i \in Ids(tbl)
         /\ TsOf(tbl, i) <= t
         /\ (i + 1 = size(tbl) \/ TsOf(tbl, i + 1) > t \/ TsOf(tbl, i + 1) = TsOf(tbl, i))
         /\ \A j \in Ids(tbl) : TsOf(tbl, j) <= t => TsOf(tbl, j) <= TsOf(tbl, i)
         /\ \A j \in Ids(tbl) : TsOf(tbl, j) = TsOf(tbl, i) => i <= j

\* what recordId_GE is to return: the result of a linear scan of the table
GE_Meets(tbl, t, st, i) ==
    IF \A j \in Ids(tbl) : TsOf(tbl, j) < t
    THEN st = "none"
    ELSE /\ st = "ok"
         /\ i \in Ids(tbl)
         /\ TsOf(tbl, i) >= t
         /\ \A j \in Ids(tbl) : TsOf(tbl, j) >= t => i <= j

\* every index of the chain holds at least one entry
IndexesHaveEntries == \A k \in 2..Len(tables) : size(tables[k]) > 0

\* C3: recordId_LE(t) returns the lowest record id among the records
\* carrying the greatest timestamp <= t (the start of the equal run, also
\* when the backward scan reaches the top of the bracket), and None exactly
\* when every record has a timestamp > t.  Stated for the series that hold
\* records in nondecreasing timestamp order and whose indexes, if any, hold
\* entries.
C3_RecordIdLE ==
    (last.op = "recordId_LE" /\ IsSorted(data) /\ size(data) > 0 /\ IndexesHaveEntries)
        => LE_Meets(data, last.t1, last.st, last.id)

\* C4: for every series, with or without a child index, recordId_GE(t)
\* returns the smallest record id whose timestamp is >= t, as a linear scan
\* of the whole data table does, and None exactly when every record has a
\* timestamp < t.
C4_RecordIdGE == last.op = "recordId_GE" => GE_Meets(data, last.t1, last.st, last.id)

\* the records of tbl with a timestamp in [a, b], in record-id order
RECURSIVE InRange(_, _, _)
InRange(tbl, a, b) ==
    IF tbl = <<>> THEN <<>>
    ELSE (IF a <= Ts(Head(tbl)) /\ Ts(Head(tbl)) <= b THEN <<Head(tbl)>> ELSE <<>>)
         \o InRange(Tail(tbl), a, b)

\* C5: for start <= end with some record >= start and some record <= end,
\* recordSet(start, end) returns exactly the records with a timestamp in
\* [start, end], contiguous and in record-id order (empty when there are none).
C5_RecordSet ==
    (/\ last.op = "recordSet"
     /\ last.t1 <= last.t2
     /\ \E j \in Ids(data) : TsOf(data, j) >= last.t1
     /\ \E j \in Ids(data) : TsOf(data, j) <= last.t2)
        => /\ last.st = "ok"
           /\ last.recs = InRange(data, last.t1, last.t2)
           /\ last.recs # <<>> => last.recs = getRecords(data, last.id, last.id + Len(last.recs) - 1)

\* the recorded call is appendRecords; what it was given and what it wrote
IsAppendRecords == last.op = "appendRecords"
preData == last.pre[1]
last_ts == Ts(preData[Len(preData)])
written == SubSeq(data, size(preData) + 1, size(data))
\* K: the number of batch records with a timestamp below last_ts
nBelow == Cardinality({i \in 1..Len(last.batch) : Ts(last.batch[i]) < last_ts})

\* C6: a batch of two or more records is written to the data table in
\* nondecreasing timestamp order, whatever the order of the input batch.
C6_BatchSorted ==
    (IsAppendRecords /\ Len(last.batch) >= 2 /\ last.err = "") => IsSorted(written)

\* C7: with discard_overlap = true on a non-empty series, appendRecords
\* returns K, the number of batch records with a timestamp strictly below
\* last_ts, and the data table grows by exactly the N-K records with a
\* timestamp >= last_ts.
C7_DiscardCount ==
    (IsAppendRecords /\ last.discard /\ last.err = "" /\ size(preData) > 0)
        => /\ last.ret = nBelow
           /\ size(data) = size(preData) + Len(last.batch) - nBelow
           /\ SubSeq(data, 1, size(preData)) = preData
           /\ \A i \in 1..Len(written) : Ts(written[i]) >= last_ts

\* C8: with discard_overlap = false, appendRecords fails with
\* TimestampOverlap if and only if the series holds records and some record
\* of the batch has a timestamp below that of the last stored record, and
\* then the tables and the append buffer are as before the call.
C8_OverlapRejected ==
    (IsAppendRecords /\ ~last.discard)
        => /\ last.err = "TimestampOverlap" <=> (size(preData) > 0 /\ nBelow > 0)
           /\ last.err = "TimestampOverlap"
                 => tables = last.pre /\ my_append_buffer = last.preBuf

\* C8 witness: an overlapping batch was rejected on a series that has an index
C8_Witness ==
    /\ IsAppendRecords /\ ~last.discard /\ size(preData) > 0
    /\ last.err = "TimestampOverlap"
    /\ Len(last.batch) >= 2 /\ Ts(last.batch[1]) >= last_ts
    /\ Len(last.pre) > 1

\* C9: a failed append (appendRecords, appendRecord or flushAppendBuffer
\* raising an error, a storage error while the index is written included)
\* leaves the data table and the index as they were before the call.
C9_FailedAppendUnchanged ==
    (/\ last.op \in {"appendRecords", "appendRecord", "flushAppendBuffer"}
     /\ last.err \in {"TimestampOverlap", "Storage", "TableException", "misordered"})
        => tables = last.pre

\* C10: once the append buffer is flushed, the data table lists the stored
\* records in the order in which their append calls were made.
C10_ProgramOrder == my_append_buffer = <<>> => data = hist

\* the recorded call is one that runs indexTail when it returns normally:
\* appendRecords, flushAppendBuffer, or an appendRecord that flushed
IndexingCall ==
    /\ last.err = ""
    /\ \/ last.op \in {"appendRecords", "flushAppendBuffer"}
       \/ last.op = "appendRecord" /\ my_append_buffer = <<>>

\* C11: the series has no index while its data table holds at most
\* SPLIT_INDEX_GT records (the table never shrinks), and after every
\* appendRecords, buffer-flushing appendRecord or flushAppendBuffer that
\* returns normally and leaves more than SPLIT_INDEX_GT records in the data
\* table the index exists, also when the series was closed and reopened
\* before.
C11_IndexStateMachine ==
    /\ size(data) <= SPLIT_INDEX_GT => Len(tables) = 1
    /\ (IndexingCall /\ size(data) > SPLIT_INDEX_GT) => Len(tables) > 1

\* the number of records the handle holds, stored or buffered
held(lv, buf) == size(lv[1]) + Len(buf)

\* C12: my_buffer_last_ts is the minimum value in every reachable state (no
\* accepted record advances it), so appendRecord never fails its timestamp
\* test, whatever the timestamp, and a call that returns normally has taken
\* the record in.
C12_AppendRecordAcceptsAll ==
    /\ my_buffer_last_ts = LLONG_MIN
    /\ last.op = "appendRecord"
         => /\ last.err # "misordered"
            /\ last.err = "" => held(tables, my_append_buffer) = held(last.pre, last.preBuf) + 1

\* C12 witness: a record older than the last buffered one was accepted
C12_Witness ==
    /\ last.op = "appendRecord" /\ last.err = ""
    /\ Len(last.preBuf) > 0
    /\ last.t1 < Ts(last.preBuf[Len(last.preBuf)])
    /\ my_append_buffer = Append(last.preBuf, DataRec(last.t1))

\* the reopened series holds the records stored before the close followed
\* by the records that were buffered, and nothing is buffered
ClosedWithAll ==
    /\ data = last.pre[1] \o last.preBuf
    /\ my_append_buffer = <<>>
    /\ SubSeq(tables, 2, Len(tables)) = SubSeq(last.pre, 2, Len(last.pre))

TableReturned == last.op \in {"Table.appendRecord", "Table.flushAppendBuffer"} /\ last.err = ""

\* C14: for every sequence of Table.appendRecord and Table.flushAppendBuffer
\* calls the persisted table followed by the buffered records is the
\* sequence of appended records in call order; after a call that returns
\* normally the buffer holds fewer than APPEND_BUFFER_SIZE records (it is
\* written out and emptied when it reaches that size), size() counts the
\* persisted records only, and a flush of an empty buffer changes nothing.
C14_TableBuffer ==
    /\ data \o my_append_buffer = hist
    /\ TableReturned => Len(my_append_buffer) < APPEND_BUFFER_SIZE
    /\ (TableReturned /\ last.op = "Table.appendRecord")
         => IF Len(last.preBuf) + 1 = APPEND_BUFFER_SIZE
            THEN data = last.pre[1] \o Append(last.preBuf, DataRec(last.t1))
                 /\ my_append_buffer = <<>>
            ELSE data = last.pre[1]
    /\ (TableReturned /\ last.op = "Table.flushAppendBuffer")
         => /\ data = last.pre[1] \o last.preBuf
            /\ my_append_buffer = <<>>

\* the index entries (ts(k*s - 1), k*s - 1) for k = 1 .. floor(n/s) of a
\* table of n records, s being INDEX_STEP
EveryStep(tbl) ==
    [k \in 1..(size(tbl) \div INDEX_STEP) |->
        <<TsOf(tbl, k * INDEX_STEP - 1), k * INDEX_STEP - 1>>]

\* C15: (INDEX_STEP <= SPLIT_INDEX_GT) once more than SPLIT_INDEX_GT records
\* with distinct ascending timestamps are appended, in appendRecords batches
\* split in any way, the index holds exactly the entries
\* (ts(k*s - 1), k*s - 1) for k = 1 .. floor(n/s), in that order.
C15_IndexEveryStep ==
    (INDEX_STEP <= SPLIT_INDEX_GT /\ last.err = "" /\ size(data) > SPLIT_INDEX_GT)
        => Len(tables) > 1 /\ tables[2] = EveryStep(data)

\* C15 witness: the index was built by one call and extended by a later
\* one, the batches not ending on multiples of INDEX_STEP
C15_Witness ==
    /\ IsAppendRecords /\ last.err = ""
    /\ Len(last.pre) > 1 /\ size(last.pre[2]) = 1
    /\ size(preData) = 2 * INDEX_STEP - 1
    /\ Len(tables) > 1 /\ size(tables[2]) = 2

\* C16: after every public operation that returns normally the entries of
\* the index are in nondecreasing timestamp order.
C16_IndexMonotone ==
    (last.err = "" /\ Len(tables) > 1) => IsSorted(tables[2])

\* C17: recordSet(start, end) fails with BadRange when start > end, with
\* NoRecords when no record has a timestamp >= start or none has one <= end,
\* and a failing call leaves the series as it was.
C17_RecordSetFails ==
    last.op = "recordSet"
        => /\ last.t1 > last.t2 => last.st = "BadRange"
           /\ (/\ last.t1 <= last.t2
               /\ \/ \A j \in Ids(data) : TsOf(data, j) < last.t1
                  \/ \A j \in Ids(data) : TsOf(data, j) > last.t2)
                => last.st = "NoRecords"
           /\ last.st # "ok" => tables = last.pre /\ my_append_buffer = last.preBuf

\* the count of a recorded getNRecordsByTimestamp against the recordSet rs
\* of the same range
CountAgrees(call, rs) ==
    /\ rs.st = "ok" => call.ret = Len(rs.recs)
    /\ rs.st # "ok" => call.ret = 0

\* C18: getNRecordsByTimestamp(start, end) returns the number of records
\* with start <= timestamp <= end: the size of recordSet(start, end) when
\* that succeeds, and 0 whenever recordSet fails.
C18_CountAsRecordSet ==
    last.op = "getNRecordsByTimestamp"
        => /\ last.st = "ok"
           /\ last.ret = Len(InRange(data, last.t1, last.t2))
           /\ CountAgrees(last, recordSet(tables, last.t1, last.t2))

\* the recorded call is a read of a record range of the Table
IsTableRead == last.op \in {"Table.getRecords", "Table.recordsAsMemoryBlockPtr"}

\* C19: a read of the records (first, last) of a Table fails with
\* IndexOutOfRange if first >= size or last >= size, with BadRange if both
\* are in range and last < first, and otherwise returns the last - first + 1
\* records with ids first..last in order; the table is unchanged.
C19_TableRead ==
    IsTableRead
        => /\ (last.id1 >= size(data) \/ last.id2 >= size(data)) <=> last.err = "IndexOutOfRange"
           /\ (last.id1 < size(data) /\ last.id2 < size(data) /\ last.id2 < last.id1)
                <=> last.err = "BadRange"
           /\ (last.id1 <= last.id2 /\ last.id2 < size(data))
                => /\ last.err = ""
                   /\ Len(last.recs) = last.id2 - last.id1 + 1
                   /\ \A i \in 0..(last.id2 - last.id1) : last.recs[i + 1] = data[last.id1 + i + 1]
           /\ tables = last.pre /\ my_append_buffer = last.preBuf

C19_Witness ==
    /\ last.op = "Table.recordsAsMemoryBlockPtr"
    /\ last.err = ""
    /\ last.id1 = 1
    /\ last.id2 = 3
    /\ Ts(last.recs[1]) # Ts(last.recs[2])

\* the record of the table that index i of the BufferedRecordSet stands for
SetRecord(i) == data[brs.my_first + i + 1]

\* the loaded window lies inside the range of the BufferedRecordSet and
\* holds the table records it covers
WindowInside ==
    /\ brs.my_nbufrecords >= 1
    /\ brs.my_first + brs.my_buf_first + brs.my_nbufrecords - 1 <= brs.my_last
    /\ brs.my_buffer_ptr
         = [j \in 1..brs.my_nbufrecords |-> SetRecord(brs.my_buf_first + j - 1)]

\* C20: for a BufferedRecordSet over the records first..last of a table,
\* in either window direction, record(i) with 0 <= i <= last - first
\* returns a record equal to table record first + i, from a window that
\* lies inside first..last and contains first + i; record(i) with
\* i > last - first fails as out of bounds; and a record returned earlier
\* keeps its value after later window loads.
C20_BufferedRecord ==
    /\ (last.op = "BufferedRecordSet.record" /\ ~brs.my_is_buffer_empty)
         => IF last.id <= brs.my_last - brs.my_first
            THEN /\ last.err = ""
                 /\ last.recs = <<SetRecord(last.id)>>
                 /\ WindowInside
                 /\ brs.my_buf_first <= last.id
                 /\ last.id <= brs.my_buf_first + brs.my_nbufrecords - 1
            ELSE last.err = "OutOfBounds"
    /\ returned # <<>> => returned[2] = SetRecord(returned[1])

C20_Witness ==
    /\ last.op = "BufferedRecordSet.record"
    /\ ~brs.my_buffer_direction
    /\ brs.my_first = 1
    /\ last.id = 3
    /\ last.recs = <<DataRec(5)>>
    /\ brs.my_buf_first = 2
    /\ returned = <<0, DataRec(2)>>

\* C21: indexing a RecordSet of n records with i returns a view of record
\* i when i < n and fails with IndexOutOfRange when i >= n; no Record
\* refers to bytes outside the n * record_size bytes of the RecordSet.
C21_RecordSetIndex ==
    last.op = "RecordSet.operator[]"
        => /\ IF last.id1 < last.id2
              THEN last.err = "" /\ last.ret = last.id1 * last.width
              ELSE last.err = "IndexOutOfRange"
           /\ last.err = "" => last.ret + last.width <= last.id2 * last.width

\* the Field a canonical type string stands for
CanonicalField(v) == IF v = "String(2)" THEN FieldOf("String", 2) ELSE FieldOf(v, 0)

\* C22: opening a table fails if the FIELD_i_TYPE attribute of any field,
\* at whatever position, is not a canonical type string; when it succeeds
\* the Structure has one Field per stored field, in stored order, paired
\* with that field's offset.
C22_OpenRejectsBadType ==
    last.op = "Table.open"
        => IF \E i \in 1..Len(last.batch) : last.batch[i] \notin FixedTypes \cup {"String(2)"}
           THEN last.err # ""
           ELSE /\ last.err = ""
                /\ Len(last.recs) = Len(last.batch)
                /\ \A i \in 1..Len(last.batch) :
                     last.recs[i] = <<CanonicalField(last.batch[i]), 8 * (i - 1)>>

\* what the recorded existence test found under the name it was given
KindAsked == last.pre[last.batch[1]]

\* C23: Table::exists(loc, name) returns true if a table called name exists
\* at loc and false otherwise, so that Timeseries::exists returns false for
\* a group without a _TSDB_data table and opening an absent table fails as
\* TableMissing.
C23_Exists ==
    /\ (last.op = "Table.exists" /\ last.err = "")
         => (last.st = "true" <=> KindAsked = "table")
    /\ (last.op = "Timeseries.exists" /\ last.err = "")
         => (last.st = "true" <=> KindAsked = "series")
    /\ (last.op = "Table.openAt" /\ last.err # "ErrorPrinting" /\ KindAsked # "table")
         => last.err = "Table does not exist"

\* C24: assigning a 32-bit integer x to an Int8 cell stores x when
\* -127 <= x <= 127, and fails with TypeConversion, the bytes of the cell
\* unchanged, when |x| > 127.
C24_Int8Bounded ==
    (last.op = "Cell.assign_int32" /\ last.st = "INT8")
        => IF 0 - 127 <= last.t1 /\ last.t1 <= 127
           THEN last.err = "" /\ last.recs = <<Bytes("int8", 1, last.t1)>>
           ELSE last.err = "TypeConversion" /\ last.recs = <<OldBytes>>

\* C25: assigning a 32-bit integer d to a Timestamp cell leaves the cell
\* holding the 64-bit integer d * 86,400,000 (checked for the d whose
\* product fits 32 bits); assigning it to a Double cell writes d as an
\* IEEE double.
C25_DaysToTimestamp ==
    /\ (last.op = "Cell.assign_int32" /\ last.st = "TIMESTAMP"
          /\ 0 - DaysInt32 <= last.t1 /\ last.t1 <= DaysInt32)
         => last.err = "" /\ last.recs = <<Bytes("int64", 8, last.t1 * MsPerDay)>>
    /\ (last.op = "Cell.assign_int32" /\ last.st = "DOUBLE")
         => last.err = "" /\ last.recs = <<Bytes("ieee64", 8, last.t1)>>

\* the index the from-scratch build makes over the data tbl
FromScratch(tbl) == createIndexIfNecessary(<<tbl>>, 1, Env(NoFail, UBCrash, FALSE)).lv[2]

\* C26: for nondecreasing data, split into append batches in any way, the
\* index built when the size first exceeds SPLIT_INDEX_GT and extended by
\* indexTail after each batch equals, entry for entry, the index that the
\* from-scratch build makes over the same final data.
C26_TailAsBuild ==
    (last.err = "" /\ Len(tables) > 1) => tables[2] = FromScratch(data)

\* C27: whenever the index exists after a public operation has returned,
\* it holds at least one entry (so that indexTail finds a last index record
\* to resume from), also over data whose timestamps are all equal.
C27_IndexNotEmpty ==
    (last.err = "" /\ Len(tables) > 1) => size(tables[2]) >= 1

\* C28: on a series whose data table holds no record, recordId_LE(t) and
\* recordId_GE(t) return None for every t instead of failing, recordSet
\* fails with NoRecords and the count query returns 0.
C28_EmptySeriesLookups ==
    size(data) = 0
        => /\ last.op \in {"recordId_LE", "recordId_GE"} => last.st = "none"
           /\ (last.op = "recordSet" /\ last.t1 <= last.t2) => last.st = "NoRecords"
           /\ last.op = "getNRecordsByTimestamp" => last.st = "ok" /\ last.ret = 0

\* C29: the Table append buffer never holds more than APPEND_BUFFER_SIZE
\* records, and holds fewer whenever Table.appendRecord has returned
\* normally, also after a flush that failed and further appendRecord calls.
C29_BufferBounded ==
    /\ Len(my_append_buffer) <= APPEND_BUFFER_SIZE
    /\ (last.op = "Table.appendRecord" /\ last.err = "")
         => Len(my_append_buffer) < APPEND_BUFFER_SIZE

====
